---- MODULE Spec2Model ----
(***************************************************************************)
(* Trello_Automation: the daily reconciliation of a Trello board           *)
(* (src/main.py), the calendar fetch that feeds it (src/function.py) and   *)
(* the token purge utility (src/token_delete/main.py).                     *)
(*                                                                         *)
(* Three specifications share the module:                                  *)
(*   Spec        main(): one reconciliation run, then a second one         *)
(*   SpecFetch   todays_event() with get_credentials(), step by step       *)
(*   SpecDelete  delete_specific_files()                                   *)
(*                                                                         *)
(* The Japanese card titles of the source are written in ASCII             *)
(* transliteration; only their identity and order matter.                  *)
(***************************************************************************)
EXTENDS Naturals, Sequences, FiniteSets

VARIABLES
    \* ---- the board (Trello side) and main()'s run ----
    todo,            \* active cards of board.list_lists()[0], in position order
    done,            \* active cards of board.list_lists()[1]
    archived,        \* cards archived so far (closed, not deleted)
    nextId,          \* id the board gives to the next created card
    pc,              \* position of main()
    i,               \* index of the running for-loop
    current_day,     \* datetime.now().strftime('%a'), "none" before it is read
    today_schedule,  \* value returned by todays_event()
    log,             \* log lines of the current run, by kind
    outcome,         \* "running", "success" (line 228 reached) or "failed" (line 231)
    run,             \* "first" or "second" run of main()
    start,           \* the board as the current run found it
    errs,            \* steps of the current run at which an error was raised
    added,           \* ids of the cards the current run has created
    prev,            \* what the first run left behind, for the second run
    \* ---- todays_event() / get_credentials() ----
    fpc,             \* position inside todays_event / get_credentials
    token,           \* content of token.pickle
    creds,           \* the local variable creds
    events,          \* events_result['items'] as the calendar answered
    ret,             \* what todays_event returned ("none" before it returns)
    hist,            \* refresh, flow, save and answered request, in order
    \* ---- delete_specific_files() ----
    fs,              \* path -> "absent" | "file" | "dir"
    file_paths,      \* the argument
    k,               \* index of the path being processed
    dlog,            \* log lines of the purge utility, one record per line
    dpc,             \* "loop", "returned" or "raised"
    fs0              \* the file system as delete_specific_files found it

boardVars == <<todo, done, archived, nextId>>
runVars == <<pc, i, current_day, today_schedule, log, outcome, run, start, errs, added, prev>>
fetchVars == <<fpc, token, creds, events, ret, hist>>
deleteVars == <<fs, file_paths, k, dlog, dpc, fs0>>
vars == <<boardVars, runVars, fetchVars, deleteVars>>

\* ------------------------------------------------------------------ bounds

\* Cards on each list when the first run starts.
MaxCards == 1
\* Events in the calendar answer of a reconciliation run.
MaxSchedule == 2
\* Events in the calendar answer of SpecFetch (the API caps it at maxResults).
MaxEvents == 2
\* Paths handed to delete_specific_files.
MaxPaths == 3

\* ------------------------------------------------------------- generic helpers

SeqsUpTo(S, n) == UNION {[1..m -> S] : m \in 0..n}

Range(s) == {s[j] : j \in 1..Len(s)}

IsPrefix(s, t) == Len(s) <= Len(t) /\ SubSeq(t, 1, Len(s)) = s

\* ------------------------------------------------------------- static data

\* self.everyday_todo
everyday_todo ==
    << "dokusho", "kintore or running", "gijutsu ni fureru", "protein1",
       "protein2", "asa no supple", "yoru no supple", "pao1", "pao2",
       "kusuri", "hamigaki", "vaseline" >>

Days == {"Mon", "Tue", "Wed", "Thu", "Fri", "Sat", "Sun"}

\* self.classes
classes ==
    [d \in Days |->
        CASE d = "Fri" -> <<"Workday", "CATS">>
          [] d = "Sat" -> <<"toilet souji">>
          [] d = "Sun" -> <<"Skin Care">>
          [] OTHER -> << >>]

\* self.classes.get(day, [])
DayTodos(day) == IF day \in DOMAIN classes THEN classes[day] ELSE << >>


\* ------------------------------------------------------------- calendar data

\* A field that is not set: .get() gives None, which is falsy like "".
NoField == << >>

\* An event without the 'summary' key.
NoSummary == "none"

\* "today" as datetime.date.today() gives it, and some other day.
Today == [year |-> 2024, month |-> 5, day |-> 17]
OtherDay == [year |-> 2024, month |-> 5, day |-> 18]

\* An API date string "YYYY-MM-DD" is the sequence of its three fields; a
\* date-time string "YYYY-MM-DDThh:mm:ss+zz:zz" has the time after them.
DateString(d) == <<d.year, d.month, d.day>>
DateTimeString(d) == <<d.year, d.month, d.day, "T09:00:00+09:00">>

\* event['start'] of the events the calendar may answer with: timed, all-day,
\* both fields set (to different days), neither.
Starts ==
    { [dateTime |-> DateTimeString(Today), date |-> NoField],
      [dateTime |-> DateTimeString(OtherDay), date |-> NoField],
      [dateTime |-> NoField, date |-> DateString(Today)],
      [dateTime |-> NoField, date |-> DateString(OtherDay)],
      [dateTime |-> DateTimeString(Today), date |-> DateString(OtherDay)],
      [dateTime |-> NoField, date |-> NoField] }

\* event['summary']; "dokusho" is also a title of everyday_todo.
Summaries == {"meeting", "dokusho", NoSummary}

EventSet == [start : Starts, summary : Summaries]

\* ------------------------------------------------------------- function.py

\* StartOf with the two fields tried in the other order
StartOfDateFirst(event) ==
    IF event.start.date # NoField THEN event.start.date ELSE event.start.dateTime

\* lines 67-70: the date-time field when it is set, the all-day field otherwise
StartOf(event) ==
    IF event.start.dateTime # NoField THEN event.start.dateTime ELSE event.start.date

\* line 71: strptime(start[:10], '%Y-%m-%d').date(); slicing None raises
SliceRaises(event) == StartOf(event) = NoField

EventDate(event) ==
    LET s == SubSeq(StartOf(event), 1, 3)
    IN  [year |-> s[1], month |-> s[2], day |-> s[3]]

\* line 72
IsToday(event, today) == EventDate(event) = today

\* lines 66-73 for one event: it raises when the start cannot be sliced, or
\* when a today's event has no 'summary' key
EventRaises(event, today) ==
    \/ SliceRaises(event)
    \/ (IsToday(event, today) /\ event.summary = NoSummary)

\* lines 60-75: the loop over the events, without the exception path
RECURSIVE FilterToday(_, _)
FilterToday(evs, today) ==
    IF evs = << >> THEN << >>
    ELSE LET rest == FilterToday(Tail(evs), today)
         IN  IF IsToday(Head(evs), today) THEN <<Head(evs).summary>> \o rest ELSE rest

\* lines 58-75: [raised, value] of the parsing of the answer
ParseEvents(evs, today) ==
    IF \E j \in 1..Len(evs) : EventRaises(evs[j], today)
    THEN [raised |-> TRUE, value |-> << >>]
    ELSE [raised |-> FALSE, value |-> FilterToday(evs, today)]

\* todays_event letting the exception through
TodaysEventReraise == [raised |-> TRUE, value |-> << >>]

\* lines 77-79: the except clause of todays_event
TodaysEventExcept == [raised |-> FALSE, value |-> << >>]

\* lines 49-79: todays_event as a whole, given whether get_credentials returned,
\* whether the request was answered, and the answer
TodaysEventResult(credsReturned, requestOk, evs, today) ==
    IF credsReturned /\ requestOk /\ ~ParseEvents(evs, today).raised
    THEN ParseEvents(evs, today)
    ELSE TodaysEventExcept

\* ------------------------------------------------------------- function.py: get_credentials

\* No credential: token.pickle does not exist, or creds is None.
NoCreds == [present |-> FALSE, valid |-> FALSE, expired |-> FALSE, refresh_token |-> FALSE]

\* A credential object; it is valid only when it is not expired.
Credentials ==
    {c \in [present : {TRUE}, valid : BOOLEAN, expired : BOOLEAN, refresh_token : BOOLEAN] :
        c.valid => ~c.expired}

\* What token.pickle may hold when get_credentials is called.
TokenStates == Credentials \cup {NoCreds}

\* line 19: not creds or not creds.valid
NeedsRenewal(c) == ~c.present \/ ~c.valid

\* line 20: creds and creds.expired and creds.refresh_token
CanRefresh(c) == c.present /\ c.expired /\ c.refresh_token

\* line 27: not creds
NeedsFlow(c) == ~c.present

\* line 22: creds.refresh(Request()) succeeded
Refreshed(c) == [c EXCEPT !.valid = TRUE, !.expired = FALSE]

\* line 37: flow.run_local_server(port=0) succeeded (offline access: with a
\* refresh token)
FlowCredentials == [present |-> TRUE, valid |-> TRUE, expired |-> FALSE, refresh_token |-> TRUE]

\* ------------------------------------------------------------- the board

Card(id, name) == [id |-> id, name |-> name]

Names(cards) == [j \in 1..Len(cards) |-> cards[j].name]

Ids(cards) == {cards[j].id : j \in 1..Len(cards)}

\* add_card putting the new card on top of the list
AddCardOnTop(cards, id, name) == <<Card(id, name)>> \o cards

\* List.add_card(name): the new card goes to the bottom of the list
AddCardTo(cards, id, name) == Append(cards, Card(id, name))

\* archive_all_cards leaving the cards where they are
ArchiveNothing(cards) == cards

\* List.archive_all_cards(): what stays active on the list
ArchiveAllCardsOf(cards) == << >>

\* line 166 with the test inverted, and with the test dropped
TodoIsEmptyInverted(cards) == cards # << >>

TodoIsEmptyAlways(cards) == TRUE

\* line 166: not self.todo_list.list_cards()
TodoIsEmpty(cards) == cards = << >>

\* ------------------------------------------------------------- main.py: handlers

\* manage_daily_todos without its raise; add_day_specific_todos with one
ManageDailyTodosSwallow == [log |-> "error manage_daily_todos", reraise |-> FALSE]

AddDaySpecificTodosReraise == [log |-> "error add_day_specific_todos", reraise |-> TRUE]

\* lines 181-183: log and re-raise
ManageDailyTodosExcept == [log |-> "error manage_daily_todos", reraise |-> TRUE]

\* lines 195-196: log only
AddDaySpecificTodosExcept == [log |-> "error add_day_specific_todos", reraise |-> FALSE]

\* lines 207-208: log only
AddScheduleTodosExcept == [log |-> "error add_schedule_todos", reraise |-> FALSE]

BoardSteps == {"list_cards", "archive_done", "archive_todo", "add_everyday",
               "add_day", "add_schedule"}

\* An error raised at `step`, handled by `handler`; `cont` is where main() goes
\* on when the handler swallows it.  A re-raised error reaches main()'s except
\* clause (lines 230-231), which logs it and ends the run.
Raise(step, handler, cont) ==
    /\ errs' = errs \cup {step}
    /\ IF handler.reraise
       THEN /\ log' = log \o <<handler.log, "error main">>
            /\ outcome' = "failed"
            /\ pc' = "done"
       ELSE /\ log' = log \o <<handler.log>>
                         \o (IF cont = "done" THEN <<"info completed">> ELSE << >>)
            /\ outcome' = (IF cont = "done" THEN "success" ELSE outcome)
            /\ pc' = cont
    /\ i' = 1


\* ------------------------------------------------------------- main.py: main()

\* Title of the cards a board holds when the first run starts; it is also a
\* title of everyday_todo, so that only the id tells an old card from a new one.
OldTitles == {"dokusho"}

NoRun == [names |-> << >>, done |-> << >>, errs |-> {}, schedule |-> << >>, day |-> "none"]

InitBoard ==
    \E tn \in SeqsUpTo(OldTitles, MaxCards), dn \in SeqsUpTo(OldTitles, MaxCards) :
        /\ todo = [j \in 1..Len(tn) |-> Card(j, tn[j])]
        /\ done = [j \in 1..Len(dn) |-> Card(Len(tn) + j, dn[j])]
        /\ nextId = Len(tn) + Len(dn) + 1
        /\ archived = << >>

IdleRun ==
    /\ pc = "idle" /\ i = 1 /\ current_day = "none" /\ today_schedule = << >>
    /\ log = << >> /\ outcome = "running" /\ run = "first"
    /\ start = [todo |-> << >>, done |-> << >>]
    /\ errs = {} /\ added = {} /\ prev = NoRun

IdleBoard == todo = << >> /\ done = << >> /\ archived = << >> /\ nextId = 1

IdleFetch ==
    /\ fpc = "idle" /\ token = NoCreds /\ creds = NoCreds /\ events = << >>
    /\ ret = [returned |-> FALSE, raised |-> FALSE, value |-> << >>]
    /\ hist = << >>

IdleDelete ==
    /\ fs = << >> /\ file_paths = << >> /\ k = 1 /\ dlog = << >> /\ dpc = "idle"
    /\ fs0 = << >>

Init ==
    /\ InitBoard
    /\ pc = "construct" /\ i = 1 /\ current_day = "none" /\ today_schedule = << >>
    /\ log = << >> /\ outcome = "running" /\ run = "first"
    /\ start = [todo |-> todo, done |-> done]
    /\ errs = {} /\ added = {} /\ prev = NoRun
    /\ IdleFetch
    /\ IdleDelete

\* line 228, then main() returns
Completed ==
    /\ log' = log \o <<"info completed">>
    /\ outcome' = "success"
    /\ pc' = "done"

\* line 219: TrelloTodoManager(); a failure is logged by the constructor and
\* by main() (lines 92-97, 230-231)
Construct ==
    /\ pc = "construct"
    /\ \/ /\ pc' = "list_cards"
          /\ UNCHANGED <<log, outcome>>
       \/ /\ log' = log \o <<"error init", "error main">>
          /\ outcome' = "failed"
          /\ pc' = "done"
    /\ UNCHANGED <<boardVars, i, current_day, today_schedule, run, start, errs, added, prev>>
    /\ UNCHANGED <<fetchVars, deleteVars>>

\* line 166-167
ListCards ==
    /\ pc = "list_cards"
    /\ \/ /\ IF TodoIsEmpty(todo)
             THEN /\ log' = log \o <<"info archive done">>
                  /\ pc' = "archive_done"
             ELSE /\ log' = log
                  /\ pc' = "archive_todo"
          /\ UNCHANGED <<i, outcome, errs>>
       \/ Raise("list_cards", ManageDailyTodosExcept, "done")
    /\ UNCHANGED <<boardVars, current_day, today_schedule, run, start, added, prev>>
    /\ UNCHANGED <<fetchVars, deleteVars>>

\* line 168
ArchiveDone ==
    /\ pc = "archive_done"
    /\ \/ /\ archived' = archived \o done
          /\ done' = ArchiveAllCardsOf(done)
          /\ pc' = "archive_todo"
          /\ UNCHANGED <<i, log, outcome, errs>>
       \/ /\ Raise("archive_done", ManageDailyTodosExcept, "done")
          /\ UNCHANGED <<archived, done>>
    /\ UNCHANGED <<todo, nextId, current_day, today_schedule, run, start, added, prev>>
    /\ UNCHANGED <<fetchVars, deleteVars>>

\* line 171
ArchiveTodo ==
    /\ pc = "archive_todo"
    /\ \/ /\ archived' = archived \o todo
          /\ todo' = ArchiveAllCardsOf(todo)
          /\ pc' = "add_everyday"
          /\ i' = 1
          /\ UNCHANGED <<log, outcome, errs>>
       \/ /\ Raise("archive_todo", ManageDailyTodosExcept, "done")
          /\ UNCHANGED <<archived, todo>>
    /\ UNCHANGED <<done, nextId, current_day, today_schedule, run, start, added, prev>>
    /\ UNCHANGED <<fetchVars, deleteVars>>

\* self.todo_list.add_card(name) answered by the board
CreateCard(name) ==
    /\ todo' = AddCardTo(todo, nextId, name)
    /\ added' = added \cup {nextId}
    /\ nextId' = nextId + 1

\* lines 174-175
AddEveryday ==
    /\ pc = "add_everyday"
    /\ \/ /\ CreateCard(everyday_todo[i])
          /\ IF i < Len(everyday_todo)
             THEN i' = i + 1 /\ pc' = pc
             ELSE i' = 1 /\ pc' = "read_day"
          /\ UNCHANGED <<log, outcome, errs>>
       \/ /\ Raise("add_everyday", ManageDailyTodosExcept, "done")
          /\ UNCHANGED <<todo, added, nextId>>
    /\ UNCHANGED <<done, archived, current_day, today_schedule, run, start, prev>>
    /\ UNCHANGED <<fetchVars, deleteVars>>

\* The weekdays the clock is read on: one without day-specific cards (Tue,
\* Wed and Thu are like it), and the three with some.
ClockDays == {"Mon", "Fri", "Sat", "Sun"}

\* lines 178-179, 192: the weekday is read from the clock and looked up.  The
\* second run is started on the day of the first.
ReadDay ==
    /\ pc = "read_day"
    /\ \E d \in (IF run = "first" THEN ClockDays ELSE {prev.day}) :
          /\ current_day' = d
          /\ pc' = (IF DayTodos(d) = << >> THEN "fetch" ELSE "add_day")
    /\ UNCHANGED <<boardVars, i, today_schedule, log, outcome, run, start, errs, added, prev>>
    /\ UNCHANGED <<fetchVars, deleteVars>>

\* lines 193-194
AddDay ==
    /\ pc = "add_day"
    /\ \/ /\ CreateCard(DayTodos(current_day)[i])
          /\ IF i < Len(DayTodos(current_day))
             THEN i' = i + 1 /\ pc' = pc
             ELSE i' = 1 /\ pc' = "fetch"
          /\ UNCHANGED <<log, outcome, errs>>
       \/ /\ Raise("add_day", AddDaySpecificTodosExcept, "fetch")
          /\ UNCHANGED <<todo, added, nextId>>
    /\ UNCHANGED <<done, archived, current_day, today_schedule, run, start, prev>>
    /\ UNCHANGED <<fetchVars, deleteVars>>

\* The events a reconciliation run is answered with: a timed one and an
\* all-day one of today, one of another day, one that cannot be parsed.
RunEvents ==
    { [start |-> [dateTime |-> DateTimeString(Today), date |-> NoField], summary |-> "meeting"],
      [start |-> [dateTime |-> NoField, date |-> DateString(Today)], summary |-> "dokusho"],
      [start |-> [dateTime |-> DateTimeString(OtherDay), date |-> NoField], summary |-> "meeting"],
      [start |-> [dateTime |-> NoField, date |-> NoField], summary |-> "meeting"] }

\* line 225: todays_event(), whatever the credential store and the calendar do
TodaysEvent ==
    /\ pc = "fetch"
    /\ \E credsReturned \in BOOLEAN, requestOk \in BOOLEAN,
          evs \in SeqsUpTo(RunEvents, MaxSchedule) :
          LET r == TodaysEventResult(credsReturned, requestOk, evs, Today)
              failed == ~credsReturned \/ ~requestOk \/ ParseEvents(evs, Today).raised
          IN  /\ errs' = (IF failed THEN errs \cup {"calendar"} ELSE errs)
              /\ IF r.raised
                 THEN /\ log' = log \o <<"error main">>
                      /\ outcome' = "failed"
                      /\ pc' = "done"
                      /\ UNCHANGED today_schedule
                 ELSE /\ today_schedule' = r.value
                      /\ IF r.value = << >>
                         THEN Completed
                         ELSE /\ pc' = "add_schedule"
                              /\ UNCHANGED <<log, outcome>>
    /\ UNCHANGED <<boardVars, i, current_day, run, start, added, prev>>
    /\ UNCHANGED <<fetchVars, deleteVars>>

\* lines 205-206, 228
AddSchedule ==
    /\ pc = "add_schedule"
    /\ \/ /\ CreateCard(today_schedule[i])
          /\ IF i < Len(today_schedule)
             THEN i' = i + 1 /\ UNCHANGED <<pc, log, outcome>>
             ELSE i' = 1 /\ Completed
          /\ UNCHANGED errs
       \/ /\ Raise("add_schedule", AddScheduleTodosExcept, "done")
          /\ UNCHANGED <<todo, added, nextId>>
    /\ UNCHANGED <<done, archived, current_day, today_schedule, run, start, prev>>
    /\ UNCHANGED <<fetchVars, deleteVars>>

\* main() is started again on the board a first run without board error left
Restart ==
    /\ pc = "done" /\ run = "first" /\ outcome = "success"
    /\ errs \cap BoardSteps = {}
    /\ run' = "second"
    /\ prev' = [names |-> Names(todo), done |-> done, errs |-> errs,
                schedule |-> today_schedule, day |-> current_day]
    /\ start' = [todo |-> todo, done |-> done]
    /\ pc' = "construct" /\ i' = 1 /\ current_day' = "none" /\ today_schedule' = << >>
    /\ log' = << >> /\ outcome' = "running" /\ errs' = {} /\ added' = {}
    /\ UNCHANGED <<boardVars, fetchVars, deleteVars>>

Next ==
    \/ Construct
    \/ ListCards
    \/ ArchiveDone
    \/ ArchiveTodo
    \/ AddEveryday
    \/ ReadDay
    \/ AddDay
    \/ TodaysEvent
    \/ AddSchedule
    \/ Restart

Spec == Init /\ [][Next]_vars


\* ------------------------------------------------------------- function.py, step by step

Returned(r) == [returned |-> TRUE, raised |-> r.raised, value |-> r.value]

InitFetch ==
    /\ IdleBoard /\ IdleRun /\ IdleDelete
    /\ token \in TokenStates
    /\ fpc = "load" /\ creds = NoCreds /\ events = << >>
    /\ ret = [returned |-> FALSE, raised |-> FALSE, value |-> << >>]
    /\ hist = << >>

\* Where get_credentials goes with creds `c` at line 19
AfterLoad(c) ==
    IF ~NeedsRenewal(c) THEN "return"
    ELSE IF CanRefresh(c) THEN "refresh"
    ELSE IF NeedsFlow(c) THEN "flow"
    ELSE "save"

\* An exception inside the try block of todays_event (lines 77-79)
FetchRaise ==
    /\ ret' = Returned(TodaysEventExcept)
    /\ fpc' = "returned"

\* lines 14-19: token.pickle is read when it exists; unpickling may fail
Load ==
    /\ fpc = "load"
    /\ \/ /\ creds' = token
          /\ fpc' = AfterLoad(token)
          /\ UNCHANGED ret
       \/ /\ token.present
          /\ FetchRaise
          /\ UNCHANGED creds
    /\ UNCHANGED <<token, events, hist>>
    /\ UNCHANGED <<boardVars, runVars, deleteVars>>

\* lines 21-25
Refresh ==
    /\ fpc = "refresh"
    /\ hist' = Append(hist, "refresh")
    /\ \/ /\ creds' = Refreshed(creds)
          /\ fpc' = "save"
       \/ /\ creds' = NoCreds
          /\ fpc' = "flow"
    /\ UNCHANGED <<token, events, ret>>
    /\ UNCHANGED <<boardVars, runVars, deleteVars>>

\* lines 27-37: the interactive flow; its failure leaves get_credentials
Flow ==
    /\ fpc = "flow"
    /\ hist' = Append(hist, "flow")
    /\ \/ /\ creds' = FlowCredentials
          /\ fpc' = "save"
          /\ UNCHANGED ret
       \/ /\ FetchRaise
          /\ UNCHANGED creds
    /\ UNCHANGED <<token, events>>
    /\ UNCHANGED <<boardVars, runVars, deleteVars>>

\* lines 40-41
Save ==
    /\ fpc = "save"
    /\ hist' = Append(hist, "save")
    /\ token' = creds
    /\ fpc' = "return"
    /\ UNCHANGED <<creds, events, ret>>
    /\ UNCHANGED <<boardVars, runVars, deleteVars>>

\* line 43 and lines 51-58: get_credentials returns creds, the request is made
\* with it and answered with up to MaxEvents events, or fails
Request ==
    /\ fpc = "return"
    /\ \/ \E evs \in SeqsUpTo(EventSet, MaxEvents) :
             /\ events' = evs
             /\ hist' = Append(hist, "answered")
             /\ fpc' = "parse"
             /\ UNCHANGED ret
       \/ /\ FetchRaise
          /\ UNCHANGED <<events, hist>>
    /\ UNCHANGED <<token, creds>>
    /\ UNCHANGED <<boardVars, runVars, deleteVars>>

\* lines 58-79
Parse ==
    /\ fpc = "parse"
    /\ ret' = Returned(TodaysEventResult(TRUE, TRUE, events, Today))
    /\ fpc' = "returned"
    /\ UNCHANGED <<token, creds, events, hist>>
    /\ UNCHANGED <<boardVars, runVars, deleteVars>>

NextFetch ==
    \/ Load
    \/ Refresh
    \/ Flow
    \/ Save
    \/ Request
    \/ Parse

SpecFetch == InitFetch /\ [][NextFetch]_vars

\* ------------------------------------------------------------- token_delete/main.py

Paths == {"token.pickle", "logs", "missing.txt"}

FileKinds == {"absent", "file", "dir"}

\* os.remove(file_path): it succeeds, or raises PermissionError or another error
RemoveOutcomes == {"ok", "PermissionError", "OSError"}

\* the PermissionError handler raising again
PermissionErrorReraise == [msg |-> "error permission", reraise |-> TRUE]

\* lines 33-34 and 35-36: both handlers log and let the loop go on
PermissionErrorExcept == [msg |-> "error permission", reraise |-> FALSE]

ExceptionExcept == [msg |-> "error", reraise |-> FALSE]

\* lines 24-31: what is done with a path of kind `kind`
Branch(kind) ==
    IF kind # "absent"
    THEN IF kind = "file" THEN "remove" ELSE "warn not a file"
    ELSE "warn missing"

InitDelete ==
    /\ IdleBoard /\ IdleRun /\ IdleFetch
    /\ fs \in [Paths -> FileKinds]
    /\ fs0 = fs
    /\ file_paths \in SeqsUpTo(Paths, MaxPaths)
    /\ k = 1 /\ dlog = << >> /\ dpc = "loop"

Line(path, msg) == [path |-> path, msg |-> msg]

\* lines 22-36: one iteration of the loop
DeleteStep ==
    /\ dpc = "loop" /\ k <= Len(file_paths)
    /\ LET path == file_paths[k]
       IN  IF Branch(fs[path]) = "remove"
           THEN \E o \in RemoveOutcomes :
                   IF o = "ok"
                   THEN /\ fs' = [fs EXCEPT ![path] = "absent"]
                        /\ dlog' = Append(dlog, Line(path, "info deleted"))
                        /\ UNCHANGED dpc
                   ELSE LET h == IF o = "PermissionError"
                                 THEN PermissionErrorExcept ELSE ExceptionExcept
                        IN  /\ dlog' = Append(dlog, Line(path, h.msg))
                            /\ dpc' = (IF h.reraise THEN "raised" ELSE dpc)
                            /\ UNCHANGED fs
           ELSE /\ dlog' = Append(dlog, Line(path, Branch(fs[path])))
                /\ UNCHANGED <<fs, dpc>>
    /\ k' = k + 1
    /\ UNCHANGED <<file_paths, fs0>>
    /\ UNCHANGED <<boardVars, runVars, fetchVars>>

\* the loop is over: delete_specific_files returns
DeleteReturn ==
    /\ dpc = "loop" /\ k = Len(file_paths) + 1
    /\ dpc' = "returned"
    /\ UNCHANGED <<fs, file_paths, k, dlog, fs0>>
    /\ UNCHANGED <<boardVars, runVars, fetchVars>>

NextDelete ==
    \/ DeleteStep
    \/ DeleteReturn

SpecDelete == InitDelete /\ [][NextDelete]_vars


\* ============================================================= the claims

Expected == everyday_todo \o DayTodos(current_day) \o today_schedule

NoBoardError == errs \cap BoardSteps = {}

Succeeded == pc = "done" /\ outcome = "success"

FatalSteps == {"list_cards", "archive_done", "archive_todo", "add_everyday"}

Logged(line) == line \in Range(log)

\* C2 as stated: an error of steps 1, 2, 3 or 5 ends the run as failed; an
\* error of step 4 alone does not.
C2_OnlyStepFourSwallowed ==
    /\ (errs \cap (FatalSteps \cup {"add_schedule"}) # {}) => outcome = "failed"
    /\ (errs \cap BoardSteps = {"add_day"}) => outcome # "failed"

\* C2 amended: an error of steps 1 to 3 is logged, re-raised and ends the run
\* as failed; an error of step 4 or of step 5 is logged and swallowed, and the
\* run goes on to its success line.
C2_StepsFourAndFiveSwallowed ==
    /\ (errs \cap FatalSteps # {}) =>
          /\ outcome = "failed" /\ pc = "done"
          /\ Logged("error manage_daily_todos") /\ Logged("error main")
          /\ ~Logged("info completed")
    /\ ("add_day" \in errs) =>
          /\ outcome # "failed"
          /\ Logged("error add_day_specific_todos") /\ ~Logged("error main")
    /\ ("add_schedule" \in errs) =>
          /\ Succeeded
          /\ Logged("error add_schedule_todos") /\ ~Logged("error main")
          /\ Logged("info completed")

C2_Witness ==
    /\ pc = "done"
    /\ "add_day" \in errs /\ "add_schedule" \in errs
    /\ Len(todo) = Len(everyday_todo) + 1 + 1

PastStepOne == pc \in {"archive_todo", "add_everyday", "read_day", "add_day", "fetch", "add_schedule"}

\* C3: in a run that found the to-do list empty, once step 1 is past, and so
\* whenever the run has created a card, the done list is empty and every card
\* it held is archived.
C3_DoneArchivedBeforeAdding ==
    (start.todo = << >> /\ (PastStepOne \/ added # {})) =>
        /\ done = << >>
        /\ Ids(start.done) \subseteq Ids(archived)
        /\ Logged("info archive done")

C3_Witness ==
    /\ start.todo = << >> /\ start.done # << >>
    /\ Cardinality(added) = 1
    /\ done = << >>

\* C4: in a run that found a card on the to-do list, the done list stays as
\* the run found it and the done-list archive is never announced.
C4_DoneUntouchedWhenTodoNotEmpty ==
    (pc # "idle" /\ start.todo # << >>) =>
        (done = start.done /\ ~Logged("info archive done"))

C4_Witness ==
    /\ run = "first" /\ start.todo # << >> /\ start.done # << >>
    /\ Succeeded /\ NoBoardError
    /\ done = start.done

DayPrefixes == {SubSeq(DayTodos(current_day), 1, n) : n \in 0..Len(DayTodos(current_day))}

\* C5: after a failure of step 4 the run is not failed, the fixed cards stay
\* at the head of the to-do list, and a run that then ends without an error
\* of step 5 has added every title of today's schedule after them.
C5_DayFailureKeepsFixedAndEvents ==
    ("add_day" \in errs) =>
        /\ outcome # "failed"
        /\ IsPrefix(everyday_todo, Names(todo))
        /\ pc = "done" => outcome = "success"
        /\ (pc = "done" /\ "add_schedule" \notin errs) =>
              \E dp \in DayPrefixes :
                 /\ dp # DayTodos(current_day)
                 /\ Names(todo) = everyday_todo \o dp \o today_schedule

C5_Witness ==
    /\ "add_day" \in errs /\ "add_schedule" \notin errs
    /\ pc = "done"
    /\ Len(today_schedule) = 2
    /\ Names(todo) = everyday_todo \o <<"Workday">> \o today_schedule

\* C7: when the credential store, the request or the parsing fails,
\* todays_event gives the empty schedule, the run still ends in its success
\* line, and the to-do list holds what steps 2 to 4 put there.
C7_CalendarFailureNeverFailsRun ==
    ("calendar" \in errs) =>
        /\ today_schedule = << >>
        /\ Succeeded
        /\ ~Logged("error main")
        /\ NoBoardError => Names(todo) = everyday_todo \o DayTodos(current_day)
        /\ Ids(todo) \cap Ids(start.todo) = {}

C7_Witness ==
    /\ "calendar" \in errs /\ NoBoardError
    /\ current_day = "Fri"
    /\ start.todo # << >>
    /\ Len(todo) = Len(everyday_todo) + 2

\* C10: a second run without board error, on the day of the first and with
\* the same schedule, leaves the to-do list with the titles the first run
\* left, and does not touch the done list.
C10_SecondRunReproducesFirst ==
    (run = "second" /\ Succeeded /\ NoBoardError /\ prev.errs \cap BoardSteps = {}
        /\ current_day = prev.day /\ today_schedule = prev.schedule) =>
        /\ Names(todo) = prev.names
        /\ Ids(todo) = added
        /\ done = prev.done
        /\ ~Logged("info archive done")

C10_Witness ==
    /\ run = "second" /\ Succeeded /\ NoBoardError
    /\ today_schedule = prev.schedule /\ Len(today_schedule) = 2
    /\ current_day = "Sat"
    /\ prev.done # << >>
    /\ Names(todo) = prev.names

\* ---- todays_event

DateFields(s) == <<s[1], s[2], s[3]>>

EffectiveDate(e) ==
    IF e.start.dateTime # NoField THEN DateFields(e.start.dateTime) ELSE DateFields(e.start.date)

HasStartAndTitle(e) ==
    /\ (e.start.dateTime # NoField \/ e.start.date # NoField)
    /\ e.summary # NoSummary

StartsToday(e) == EffectiveDate(e) = <<Today.year, Today.month, Today.day>>

TitlesOf(evs) == [j \in 1..Len(evs) |-> evs[j].summary]

Answered == Len(hist) > 0 /\ hist[Len(hist)] = "answered"

\* C6: when the calendar answered with events that each have a start and a
\* title, todays_event returns the titles of those whose effective date (of the
\* date-time field when set, of the all-day field otherwise) is today, in the
\* order of the answer.
C6_ReturnsTodaysTitlesInOrder ==
    (fpc = "returned" /\ Answered /\ \A j \in 1..Len(events) : HasStartAndTitle(events[j])) =>
        /\ ~ret.raised
        /\ ret.value = TitlesOf(SelectSeq(events, StartsToday))

C6_Witness ==
    /\ fpc = "returned" /\ Answered
    /\ Len(events) = 2
    /\ events[1].start = [dateTime |-> NoField, date |-> DateString(Today)]
    /\ events[2].start = [dateTime |-> DateTimeString(Today), date |-> DateString(OtherDay)]
    /\ ret.value = <<"dokusho", "meeting">>

\* C9: the credential get_credentials returns is valid, and refresh is
\* attempted at most once.
C9_ReturnedCredentialIsValid ==
    /\ fpc = "return" => creds.valid
    /\ Cardinality({j \in 1..Len(hist) : hist[j] = "refresh"}) <= 1

\* ---- delete_specific_files

Deleted(j) == dlog[j].msg = "info deleted"

\* the kind of the j-th path when its turn came
KindThen(j) ==
    IF \E h \in 1..(j - 1) : Deleted(h) /\ dlog[h].path = dlog[j].path
    THEN "absent" ELSE fs0[dlog[j].path]

\* C8: delete_specific_files never raises, handles the paths in order, one log
\* line each, up to the last; a path is removed exactly when it was a regular
\* file at its turn and os.remove did not fail, and nothing else changes.
C8_PurgeProcessesEveryPath ==
    (dpc # "idle") =>
        /\ dpc # "raised"
        /\ Len(dlog) = k - 1
        /\ dpc = "returned" => Len(dlog) = Len(file_paths)
        /\ \A j \in 1..Len(dlog) :
              /\ dlog[j].path = file_paths[j]
              /\ KindThen(j) = "file" =>
                    dlog[j].msg \in {"info deleted", "error permission", "error"}
              /\ KindThen(j) = "dir" => dlog[j].msg = "warn not a file"
              /\ KindThen(j) = "absent" => dlog[j].msg = "warn missing"
        /\ \A p \in Paths :
              IF \E j \in 1..Len(dlog) : Deleted(j) /\ dlog[j].path = p
              THEN fs0[p] = "file" /\ fs[p] = "absent"
              ELSE fs[p] = fs0[p]

C8_Witness ==
    /\ dpc = "returned"
    /\ file_paths = <<"logs", "token.pickle", "missing.txt">>
    /\ fs0["logs"] = "file" /\ fs0["token.pickle"] = "file" /\ fs0["missing.txt"] = "absent"
    /\ dlog[1].msg = "error permission"
    /\ dlog[2].msg = "info deleted"
    /\ dlog[3].msg = "warn missing"
    /\ fs["logs"] = "file" /\ fs["token.pickle"] = "absent"

====
